---- MODULE Spec2Model ----
(***************************************************************************)
(* Model of content-store (src/index.js): a restify server that stores     *)
(* every uploaded file under the hex digest of its content.                *)
(*                                                                         *)
(* State: the file system (temporary files and the storage directory),     *)
(* the closure state of every POST /upload request (files, taskCounter,    *)
(* the responses handed to res.send), the position of every 'part'         *)
(* handler, the position of the DELETE handler and the progress of the     *)
(* call of ContentStore that creates the server. GET is served by          *)
(* restify's serveStatic from the storage directory and changes nothing.   *)
(*                                                                         *)
(* Environment (multiparty, node streams, fs-extra), as the handlers of    *)
(* src/index.js see it:                                                    *)
(*  - 'part' events arrive only while the form is being parsed;            *)
(*  - 'close' is emitted once, and not after an 'error';                   *)
(*  - a form 'error' is emitted once; multiparty first emits 'error' on    *)
(*    the part stream that is open at that moment;                         *)
(*  - a write stream either emits 'finish' after the last byte of its      *)
(*    source or emits 'error';                                             *)
(*  - fs.move either renames the file in one step or rejects;              *)
(*  - randomBytes(16) never yields the name of an existing temporary file. *)
(***************************************************************************)
EXTENDS Integers, Sequences, FiniteSets, TLC

\* ------------------------------------------------------------------ bounds
MaxReq == 2      \* upload requests per run
MaxParts == 2    \* 'part' events per run, over all requests

\* ------------------------------------------------------------ input values
Names == {"a.txt", "b.txt"}
NoFilename == ""
Contents == {<< >>, <<0>>, <<0, 1>>}

\* ------------------------------------------------------------------ hashing
\* src/unnamed/part_000: the seed handed to the hash constructor
SEED == 0

\* createHash(): a fresh hash object, its state determined by the seed
createHash == SEED

\* hash.update(chunk), one byte at a time; order-sensitive
hashUpdate(h, b) == (h * 3 + b + 1) % 256

\* hash.digest('hex'): the 8-bit state as two hex digits
hashDigest(h) == << h \div 16, h % 16 >>

\* HashThrough(createHash): the pass-through stream starts from a fresh hash
HashThrough == createHash

\* the digest of a whole byte sequence, as a client computes it independently
RECURSIVE hashAll(_, _)
hashAll(h, bytes) ==
  IF bytes = << >> THEN h ELSE hashAll(hashUpdate(h, Head(bytes)), Tail(bytes))

Digest(bytes) == hashDigest(hashAll(createHash, bytes))

\* -------------------------------------------------------------- file names
storageDir == "data"
tmpDir == "tmp"

\* the prefix `tmp_`: file names are sequences of characters, the hex digits
\* being 0..15; the prefix is a character that is no hex digit
TmpPrefix == 16

\* mutant: temporary files created inside the storage directory
tmpFileNameInStorage(token) == << storageDir, << TmpPrefix, token >> >>

\* tmpFileName(): path.resolve(os.tmpdir(), `tmp_${random}`)
tmpFileName(token) == << tmpDir, << TmpPrefix, token >> >>

\* mutant: the destination resolved against the temporary directory
destFileNameInTmp(basename) == << tmpDir, basename >>

\* destFileName(basename): path.resolve(storageDir, basename)
destFileName(basename) == << storageDir, basename >>

\* ---------------------------------------------------------- the file system
\* fs: a function from the paths that exist to their content
fsWrite(f, path, content) ==
  [q \in DOMAIN f \cup {path} |-> IF q = path THEN content ELSE f[q]]

\* mutant: a removal that removes nothing
fsRemoveNothing(f, path) == f

\* fs.remove(path): no error when the path is absent
fsRemove(f, path) == [q \in DOMAIN f \ {path} |-> f[q]]

\* fs.move(src, dest, {overwrite: true})
fsMove(f, src, dest) == fsRemove(fsWrite(f, dest, f[src]), src)

\* mutant: an existence check that always answers yes
pathExistsAlways(f, path) == TRUE

\* fs.pathExists(path)
pathExists(f, path) == path \in DOMAIN f

VARIABLES reqs, parts, fs, del, store

vars == << reqs, parts, fs, del, store >>

\* ---------------------------------------------------------------- responses
NoFilesResponse(files) == [status |-> 200, result |-> "no files to upload", files |-> files]
UploadOkResponse(files) == [status |-> 201, result |-> "upload OK", files |-> files]
InternalServerError == [status |-> 500, result |-> "InternalServerError", files |-> << >>]

\* the responses of DELETE /:id
NotFoundError == [status |-> 404, result |-> "NotFound"]
ConflictError == [status |-> 409, result |-> "Conflict"]
DeleteInternalServerError == [status |-> 500, result |-> "InternalServerError"]
DeleteOk == [status |-> 200, result |-> ""]
NoResponse == [status |-> 0, result |-> ""]

\* ------------------------------------------------- POST /upload: the closure
\* mutant: a task counted twice
taskPlusTwice(rq) == [rq EXCEPT !.taskCounter = @ + 2]

\* taskPlus(): taskCounter++
taskPlus(rq) == [rq EXCEPT !.taskCounter = @ + 1]

\* mutant: responding while one task is still outstanding
timeToRespondEarly(counter) == counter <= 1

\* the test of taskMinus that decides it is time to respond
timeToRespond(counter) == counter = 0

\* mutant: 201 'upload OK' whatever the list holds
aggregateResponseAlwaysOk(files) == UploadOkResponse(files)

\* the response of taskMinus: 200 without files, 201 with files
aggregateResponse(files) ==
  IF Len(files) = 0 THEN NoFilesResponse(files) ELSE UploadOkResponse(files)

\* taskMinus(): taskCounter--, and the aggregate response at zero
taskMinus(rq) ==
  LET c == rq.taskCounter - 1
  IN IF timeToRespond(c)
     THEN [rq EXCEPT !.taskCounter = c, !.sends = Append(@, aggregateResponse(rq.files))]
     ELSE [rq EXCEPT !.taskCounter = c]

\* mutant: an error handler that sends nothing
onAnyErrorSilent(rq) == rq

\* onAnyError(err): res.send(new ERRS.InternalServerError(err))
onAnyError(rq) == [rq EXCEPT !.sends = Append(@, InternalServerError)]

\* --------------------------------------------- ContentStore(opts, createHash)
\* what a caller may hand over as createHash
CreateHashArgs == {"undefined", "null", "string", "object", "function"}

\* the routes registered on the server
Routes == {"GET /", "GET /health", "GET /.*", "DELETE /:id", "POST /upload"}

\* mutant: no check of the argument
createHashNeverRejected(arg) == FALSE

\* !createHash || typeof createHash !== 'function'
createHashRejected(arg) == arg \in {"undefined", "null"} \/ arg # "function"

\* no request in flight, no file, no DELETE running
InitRequests ==
  /\ reqs = << >>
  /\ parts = << >>
  /\ fs = [q \in {} |-> << >>]
  /\ del = [filepath |-> << >>, pc |-> "idle", res |-> NoResponse]

\* the store constructed with a hash factory: the server ContentStore returns
Init ==
  /\ InitRequests
  /\ store = [pc |-> "returned", createHash |-> "function", error |-> "",
              dirExists |-> TRUE, routes |-> Routes]

\* before the call of ContentStore: the argument is any value, the storage
\* directory may be there from an earlier run
InitCall ==
  /\ InitRequests
  /\ \E arg \in CreateHashArgs, dir \in BOOLEAN :
       store = [pc |-> "called", createHash |-> arg, error |-> "",
                dirExists |-> dir, routes |-> {}]

\* the call up to its first await: the check of createHash, then fs.ensureDir
Construct ==
  /\ store.pc = "called"
  /\ IF createHashRejected(store.createHash)
     THEN store' = [store EXCEPT !.pc = "thrown", !.error = "TypeError"]
     ELSE store' = [store EXCEPT !.pc = "ensureDir"]
  /\ UNCHANGED << reqs, parts, fs, del >>

\* fs.ensureDir resolves: createServer, the plugins and routes, return server
EnsureDirOk ==
  /\ store.pc = "ensureDir"
  /\ store' = [store EXCEPT !.pc = "returned", !.dirExists = TRUE, !.routes = Routes]
  /\ UNCHANGED << reqs, parts, fs, del >>

\* fs.ensureDir rejects: the async function rejects, no server is created
EnsureDirFail ==
  /\ store.pc = "ensureDir"
  /\ store' = [store EXCEPT !.pc = "thrown", !.error = "ensureDir"]
  /\ UNCHANGED << reqs, parts, fs, del >>

\* a request is handled only by a route of a server that exists
Routed(route) == route \in store.routes

\* server.post('/upload'): a new closure; taskPlus() for parsing; form.parse(req)
Upload ==
  /\ reqs' = Append(reqs, taskPlus([form |-> "parsing", files |-> << >>,
                                      taskCounter |-> 0, sends |-> << >>]))
  /\ UNCHANGED << parts, fs, del, store >>

\* ------------------------------------------- POST /upload: form.on('part')
NewPart(r, filename, data) ==
  [req |-> r, filename |-> filename, data |-> data, pos |-> 0,
   ht |-> HashThrough, tmpFile |-> tmpFileName(Len(parts) + 1),
   digest |-> << >>, pc |-> "writing"]

\* a part with a filename: taskPlus(), the temporary file and the pipe
PartFile(r, filename, data) ==
  /\ r \in DOMAIN reqs
  /\ reqs[r].form = "parsing"
  /\ LET p == NewPart(r, filename, data)
     IN /\ parts' = Append(parts, p)
        /\ fs' = fsWrite(fs, p.tmpFile, << >>)
  /\ reqs' = [reqs EXCEPT ![r] = taskPlus(@)]
  /\ UNCHANGED << del, store >>

\* a part without a filename: only part.on('error', onAnyError) is registered
PartNoFile(r) ==
  /\ r \in DOMAIN reqs
  /\ reqs[r].form = "parsing"
  /\ parts' = Append(parts, [NewPart(r, NoFilename, << >>) EXCEPT !.pc = "ignored"])
  /\ UNCHANGED << reqs, fs, del, store >>

\* part.pipe(ht).pipe(fileSink): one chunk through the hash into the sink
Write(p) ==
  /\ p \in DOMAIN parts
  /\ parts[p].pc = "writing"
  /\ parts[p].pos < Len(parts[p].data)
  /\ LET b == parts[p].data[parts[p].pos + 1]
     IN /\ parts' = [parts EXCEPT ![p].pos = @ + 1, ![p].ht = hashUpdate(@, b)]
        /\ fs' = fsWrite(fs, parts[p].tmpFile, Append(fs[parts[p].tmpFile], b))
  /\ UNCHANGED << reqs, del, store >>

\* lib/event-promise: settled by the awaited event or by 'error'
eventPromise(awaited, emitted) ==
  IF emitted = awaited THEN "resolved"
  ELSE IF emitted = "error" THEN "rejected" ELSE "pending"

\* ht.digest('hex') of the part's pass-through stream
htDigest(part) == hashDigest(part.ht)

\* mutant: the list replaced by the new entry instead of extended
filesPushOnly(rq, filename, destBaseName) ==
  [rq EXCEPT !.files = << << filename, destBaseName >> >>]

\* files.push([part.filename, destBaseName])
filesPush(rq, filename, destBaseName) ==
  [rq EXCEPT !.files = Append(@, << filename, destBaseName >>)]

\* mutant: one files list shared by all requests
FinishShared(p) ==
  /\ p \in DOMAIN parts
  /\ parts[p].pc = "writing"
  /\ parts[p].pos = Len(parts[p].data)
  /\ LET destBaseName == htDigest(parts[p])
     IN /\ parts' = [parts EXCEPT ![p].digest = destBaseName, ![p].pc = "moving"]
        /\ reqs' = [r \in DOMAIN reqs |->
                      filesPush(reqs[r], parts[p].filename, destBaseName)]
  /\ UNCHANGED << fs, del, store >>

\* fileSink 'finish': the digest is taken, the entry pushed, fs.move started
Finish(p) ==
  /\ p \in DOMAIN parts
  /\ parts[p].pc = "writing"
  /\ parts[p].pos = Len(parts[p].data)
  /\ eventPromise("finish", "finish") = "resolved"
  /\ LET destBaseName == htDigest(parts[p])
     IN /\ parts' = [parts EXCEPT ![p].digest = destBaseName, ![p].pc = "moving"]
        /\ reqs' = [reqs EXCEPT ![parts[p].req] =
                      filesPush(@, parts[p].filename, destBaseName)]
  /\ UNCHANGED << fs, del, store >>

\* mutant: the error of the sink handled in place, the handler goes on
SinkErrorContinues(p) ==
  /\ p \in DOMAIN parts
  /\ parts[p].pc = "writing"
  /\ LET destBaseName == htDigest(parts[p])
     IN /\ parts' = [parts EXCEPT ![p].digest = destBaseName, ![p].pc = "moving"]
        /\ reqs' = [reqs EXCEPT ![parts[p].req] =
                      filesPush(onAnyError(@), parts[p].filename, destBaseName)]
  /\ UNCHANGED << fs, del, store >>

\* fileSink 'error': the await throws, catch (err) { onAnyError(err) }
SinkError(p) ==
  /\ p \in DOMAIN parts
  /\ parts[p].pc = "writing"
  /\ eventPromise("finish", "error") = "rejected"
  /\ parts' = [parts EXCEPT ![p].pc = "failed"]
  /\ reqs' = [reqs EXCEPT ![parts[p].req] = onAnyError(@)]
  /\ UNCHANGED << fs, del, store >>

\* fs.move resolves: taskMinus()
MoveOk(p) ==
  /\ p \in DOMAIN parts
  /\ parts[p].pc = "moving"
  /\ fs' = fsMove(fs, parts[p].tmpFile, destFileName(parts[p].digest))
  /\ parts' = [parts EXCEPT ![p].pc = "moved"]
  /\ reqs' = [reqs EXCEPT ![parts[p].req] = taskMinus(@)]
  /\ UNCHANGED << del, store >>

\* mutant: the failed move also counted as a finished task
MoveFailTaskMinus(p) ==
  /\ p \in DOMAIN parts
  /\ parts[p].pc = "moving"
  /\ parts' = [parts EXCEPT ![p].pc = "failed"]
  /\ reqs' = [reqs EXCEPT ![parts[p].req] = taskMinus(onAnyError(@))]
  /\ UNCHANGED << fs, del, store >>

\* fs.move rejects: catch (err) { onAnyError(err) }
MoveFail(p) ==
  /\ p \in DOMAIN parts
  /\ parts[p].pc = "moving"
  /\ parts' = [parts EXCEPT ![p].pc = "failed"]
  /\ reqs' = [reqs EXCEPT ![parts[p].req] = onAnyError(@)]
  /\ UNCHANGED << fs, del, store >>

\* the part stream that is open when the form fails emits 'error':
\* part.on('error', onAnyError); its pipe never ends, the await never settles
PartError(p) ==
  /\ p \in DOMAIN parts
  /\ reqs[parts[p].req].form = "parsing"
  /\ \A q \in DOMAIN parts : parts[q].req = parts[p].req => q <= p
  /\ \/ parts[p].pc = "ignored"
     \/ parts[p].pc = "writing" /\ parts[p].pos < Len(parts[p].data)
  /\ parts' = [parts EXCEPT ![p].pc = IF @ = "writing" THEN "stalled" ELSE @]
  /\ reqs' = [reqs EXCEPT ![parts[p].req] = [onAnyError(@) EXCEPT !.form = "failing"]]
  /\ UNCHANGED << fs, del, store >>

\* form.on('error', onAnyError)
FormError(r) ==
  /\ r \in DOMAIN reqs
  /\ reqs[r].form \in {"parsing", "failing"}
  /\ reqs' = [reqs EXCEPT ![r] = [onAnyError(@) EXCEPT !.form = "error"]]
  /\ UNCHANGED << parts, fs, del, store >>

\* form.on('close', taskMinus)
Close(r) ==
  /\ r \in DOMAIN reqs
  /\ reqs[r].form = "parsing"
  /\ reqs' = [reqs EXCEPT ![r] = [taskMinus(@) EXCEPT !.form = "closed"]]
  /\ UNCHANGED << parts, fs, del, store >>

\* ------------------------------------------------------------ DELETE /:id
Ids == {Digest(c) : c \in Contents}

\* server.del('/:id'): filepath = path.resolve(storageDir, req.params.id)
Delete(id) ==
  /\ del.pc \in {"idle", "done"}
  /\ del' = [filepath |-> << storageDir, id >>, pc |-> "pathExists", res |-> NoResponse]
  /\ UNCHANGED << reqs, parts, fs, store >>

\* fs.pathExists(filepath).then(exists => ...)
DeleteExists ==
  /\ del.pc = "pathExists"
  /\ IF pathExists(fs, del.filepath)
     THEN del' = [del EXCEPT !.pc = "remove"]
     ELSE del' = [del EXCEPT !.pc = "done", !.res = NotFoundError]
  /\ UNCHANGED << reqs, parts, fs, store >>

\* fs.pathExists rejects: the outer .catch
DeleteExistsFail ==
  /\ del.pc = "pathExists"
  /\ del' = [del EXCEPT !.pc = "done", !.res = DeleteInternalServerError]
  /\ UNCHANGED << reqs, parts, fs, store >>

\* fs.remove(filepath).then(_ => res.send(200))
DeleteRemove ==
  /\ del.pc = "remove"
  /\ fs' = fsRemove(fs, del.filepath)
  /\ del' = [del EXCEPT !.pc = "done", !.res = DeleteOk]
  /\ UNCHANGED << reqs, parts, store >>

\* mutant: a failed removal reported as NotFound
DeleteRemoveFailNotFound ==
  /\ del.pc = "remove"
  /\ del' = [del EXCEPT !.pc = "done", !.res = NotFoundError]
  /\ UNCHANGED << reqs, parts, fs, store >>

\* fs.remove rejects: res.send(new ERRS.ConflictError(err))
DeleteRemoveFail ==
  /\ del.pc = "remove"
  /\ del' = [del EXCEPT !.pc = "done", !.res = ConflictError]
  /\ UNCHANGED << reqs, parts, fs, store >>

\* --------------------------------------------------------------- GET /<id>
\* restify.plugins.serveStatic({directory: storageDir}): the response to a
\* GET of id served from file system f
serveStatic(f, id) ==
  IF pathExists(f, << storageDir, id >>)
  THEN [status |-> 200, body |-> f[<< storageDir, id >>]]
  ELSE [status |-> 404, body |-> << >>]

\* ------------------------------------------------------------ next states
\* the steps of a file part from the 'part' event to the move, and 'close'
FileSteps ==
  \/ \E r \in DOMAIN reqs, filename \in Names, data \in Contents :
       Len(parts) < MaxParts /\ PartFile(r, filename, data)
  \/ \E p \in DOMAIN parts : Write(p)
  \/ \E p \in DOMAIN parts : Finish(p)
  \/ \E p \in DOMAIN parts : SinkError(p)
  \/ \E p \in DOMAIN parts : MoveOk(p)
  \/ \E p \in DOMAIN parts : MoveFail(p)
  \/ \E r \in DOMAIN reqs : Close(r)

\* parts without a filename and the errors of the form
FormSteps ==
  \/ \E r \in DOMAIN reqs : Len(parts) < MaxParts /\ PartNoFile(r)
  \/ \E p \in DOMAIN parts : PartError(p)
  \/ \E r \in DOMAIN reqs : FormError(r)

\* the steps of the DELETE handler
DeleteSteps ==
  \/ \E id \in Ids : Delete(id)
  \/ DeleteExists
  \/ DeleteExistsFail
  \/ DeleteRemove
  \/ DeleteRemoveFail

\* one upload request
NextUpload ==
  \/ reqs = << >> /\ Upload
  \/ FileSteps
  \/ FormSteps

Spec == Init /\ [][NextUpload]_vars

\* the pending work of a file part: its pipe and its move each end, in
\* 'finish' or 'error', in a resolved or a rejected promise
PartWork(p) == Write(p) \/ Finish(p) \/ SinkError(p) \/ MoveOk(p) \/ MoveFail(p)

\* the parsing of a form ends, in 'close' or in 'error'
FormWork(r) == Close(r) \/ FormError(r)

\* one upload request whose pending I/O is always completed by the event loop
SpecFair ==
  /\ Spec
  /\ \A p \in 1..MaxParts : WF_vars(PartWork(p))
  /\ \A r \in 1..MaxReq : WF_vars(FormWork(r))

\* concurrent upload requests and DELETE requests; the parts without a
\* filename and the errors of the form, which touch no file, are left to Spec
NextStore ==
  \/ Len(reqs) < MaxReq /\ Upload
  \/ FileSteps
  \/ DeleteSteps

SpecStore == Init /\ [][NextStore]_vars

\* the construction of the store, followed by one upload request
NextConstruct ==
  \/ Construct
  \/ EnsureDirOk
  \/ EnsureDirFail
  \/ Routed("POST /upload") /\ reqs = << >> /\ Upload
  \/ FileSteps
  \/ FormSteps

SpecConstruct == InitCall /\ [][NextConstruct]_vars

\* ------------------------------------------------------------------ claims
IsFile(p) == parts[p].filename # NoFilename
FileParts(r) == {p \in DOMAIN parts : parts[p].req = r /\ IsFile(p)}
Aggregate(resp) == resp.status \in {200, 201}
Stored(f) == {path \in DOMAIN f : path[1] = storageDir}
Last(seq) == seq[Len(seq)]
Sent(r) == Len(reqs'[r].sends) > Len(reqs[r].sends)
Commits(p) == parts[p].pc = "moving" /\ parts'[p].pc = "moved"
Fails(p) == parts[p].pc \in {"writing", "moving"} /\ parts'[p].pc \in {"failed", "stalled"}

\* C1: every upload request hands at most one response to res.send, whatever
\* the interleaving of part events, completions, failures and form events.
C1_AtMostOneResponse == \A r \in DOMAIN reqs : Len(reqs[r].sends) <= 1

\* C2: a step sends the aggregate 200/201 response only by taking the counter
\* from 1 to 0, and then 'close' has fired and every file part of the request
\* has finished its move; a part finishing before 'close' sends nothing.
C2_ResponseOnlyAtZero ==
  [][\A r \in DOMAIN reqs :
       (Sent(r) /\ Aggregate(Last(reqs'[r].sends))) =>
          /\ reqs[r].taskCounter = 1
          /\ reqs'[r].taskCounter = 0
          /\ reqs'[r].form = "closed"
          /\ \A p \in DOMAIN parts' :
               (parts'[p].req = r /\ parts'[p].filename # NoFilename) => parts'[p].pc = "moved"
          /\ Len(reqs'[r].sends) = Len(reqs[r].sends) + 1]_vars

C2_Witness ==
  \E r \in DOMAIN reqs :
    /\ Cardinality(FileParts(r)) = 2
    /\ reqs[r].form = "closed"
    /\ reqs[r].taskCounter = 0
    /\ Len(reqs[r].sends) = 1
    /\ reqs[r].sends[1].status = 201

\* C3: when 'close' has fired and all N >= 1 file parts of a request have been
\* moved, the request has exactly one response, it is 201, and its files list
\* has N entries, one per part: the part's filename with the digest of the
\* part's bytes.
C3_OneEntryPerPart ==
  \A r \in DOMAIN reqs :
    LET fileParts == FileParts(r)
        N == Cardinality(fileParts)
    IN (/\ reqs[r].form = "closed"
        /\ N >= 1
        /\ \A p \in fileParts : parts[p].pc = "moved")
       => /\ Len(reqs[r].sends) = 1
          /\ reqs[r].sends[1].status = 201
          /\ Len(reqs[r].sends[1].files) = N
          /\ \E f \in [1..N -> fileParts] :
               /\ \A i, j \in 1..N : f[i] = f[j] => i = j
               /\ \A i \in 1..N :
                    reqs[r].sends[1].files[i] =
                      << parts[f[i]].filename, Digest(parts[f[i]].data) >>

C3_Witness ==
  \E r \in DOMAIN reqs :
    /\ reqs[r].form = "closed"
    /\ Cardinality(FileParts(r)) = 2
    /\ \A p \in FileParts(r) : parts[p].pc = "moved"
    /\ \E p, q \in FileParts(r) :
         /\ p < q
         /\ parts[p].data # parts[q].data
         /\ parts[p].filename # parts[q].filename
         /\ reqs[r].sends[1].files[1][1] = parts[q].filename

\* C4: once 'close' has fired and the counter is zero, a request without file
\* parts (parts without a filename do not count) has been answered 200, 'no
\* files to upload', with an empty list, and a request whose file parts have
\* all been moved has been answered 201 with a list that is not empty.
C4_StatusByFiles ==
  \A r \in DOMAIN reqs :
    (reqs[r].form = "closed" /\ reqs[r].taskCounter = 0) =>
       /\ FileParts(r) = {} =>
            reqs[r].sends = << [status |-> 200, result |-> "no files to upload",
                                files |-> << >>] >>
       /\ FileParts(r) # {} =>
            /\ Len(reqs[r].sends) = 1
            /\ reqs[r].sends[1].status = 201
            /\ reqs[r].sends[1].result = "upload OK"
            /\ reqs[r].sends[1].files # << >>

C4_Witness ==
  \E r \in DOMAIN reqs :
    /\ reqs[r].form = "closed"
    /\ FileParts(r) = {}
    /\ \E p \in DOMAIN parts : parts[p].req = r /\ ~IsFile(p)
    /\ Len(reqs[r].sends) = 1
    /\ reqs[r].sends[1].status = 200

\* C5: whenever the move of a part with bytes B completes, the digest recorded
\* for it is the digest of B (so any two uploads of B report the same digest),
\* and the storage directory then holds exactly one object with content B,
\* at storageDir/digest(B).
C5_OneObjectPerContent ==
  [][\A p \in DOMAIN parts :
       Commits(p) =>
          LET B == parts[p].data
              d == Digest(B)
          IN /\ parts'[p].digest = d
             /\ \A q \in DOMAIN parts' :
                  (parts'[q].data = B /\ parts'[q].digest # << >>) => parts'[q].digest = d
             /\ << storageDir, d >> \in DOMAIN fs'
             /\ {path \in Stored(fs') : fs'[path] = B} = {<< storageDir, d >>}]_vars

C5_Witness ==
  \E p, q \in DOMAIN parts :
    /\ parts[p].req # parts[q].req
    /\ parts[p].filename # parts[q].filename
    /\ parts[p].data = parts[q].data
    /\ parts[p].data # << >>
    /\ parts[p].pc = "moved" /\ parts[q].pc = "moved"
    /\ {path \in Stored(fs) : fs[path] = parts[p].data} = {<< storageDir, parts[p].digest >>}

C7_DeleteOutcome ==
  [][/\ (del.pc = "pathExists" /\ del'.pc # "pathExists"
           /\ del'.res # DeleteInternalServerError) =>
          IF del.filepath \in DOMAIN fs
          THEN del'.pc = "remove" /\ del'.res = NoResponse /\ fs' = fs
          ELSE del'.pc = "done" /\ del'.res = NotFoundError /\ fs' = fs
     /\ (del.pc = "remove" /\ del'.pc = "done" /\ del'.res # ConflictError) =>
          /\ del'.res = DeleteOk
          /\ del.filepath \notin DOMAIN fs'
          /\ \A path \in DOMAIN fs : path # del.filepath =>
               path \in DOMAIN fs' /\ fs'[path] = fs[path]
     /\ \A path \in Stored(fs') \ Stored(fs) : \E p \in DOMAIN parts :
          Commits(p) /\ path = << storageDir, parts[p].digest >>]_vars

\* a part was moved to its digest, the object is gone again (a DELETE of it
\* answered 200), and the latest DELETE, of the same digest, answered NotFound
C7_Witness ==
  \E p \in DOMAIN parts :
    /\ parts[p].pc = "moved"
    /\ << storageDir, parts[p].digest >> \notin DOMAIN fs
    /\ del.pc = "done"
    /\ del.filepath = << storageDir, parts[p].digest >>
    /\ del.res = NotFoundError

\* C8: the bytes served for a digest change only in two ways: the object
\* appears by the move of an upload of bytes B with that digest, and is then
\* served as exactly B; it disappears by a successful DELETE of that digest,
\* and is then answered 404. In every other step a stored digest keeps being
\* served with the same bytes and an absent one stays 404.
C8_ServedUntilDeleted ==
  [][\A id \in Ids :
       LET path == << storageDir, id >>
           before == serveStatic(fs, id)
           after == serveStatic(fs', id)
           uploaded == \E p \in DOMAIN parts :
                         Commits(p) /\ parts[p].digest = id /\ id = Digest(parts[p].data)
           deleted == del.pc = "remove" /\ del.filepath = path /\ del'.res = DeleteOk
       IN /\ (\E p \in DOMAIN parts : Commits(p) /\ parts[p].digest = id) =>
               \E p \in DOMAIN parts :
                  Commits(p) /\ parts[p].digest = id
                             /\ after = [status |-> 200, body |-> parts[p].data]
          /\ deleted => after = [status |-> 404, body |-> << >>]
          /\ (before.status = 200 /\ ~deleted) => after = before
          /\ (before.status = 404 /\ ~uploaded) => after = before
          /\ before.status = 200 <=> path \in DOMAIN fs]_vars

\* bytes were uploaded, deleted with 200, uploaded again, and are served
C8_Witness ==
  \E p, q \in DOMAIN parts :
    /\ p # q
    /\ parts[p].data = parts[q].data
    /\ parts[p].pc = "moved" /\ parts[q].pc = "moved"
    /\ del.pc = "done" /\ del.res = DeleteOk
    /\ del.filepath = << storageDir, parts[p].digest >>
    /\ serveStatic(fs, parts[p].digest) = [status |-> 200, body |-> parts[p].data]

\* C9: the step in which a file part fails hands the 500 response to res.send
\* at once, with the counter above zero and unchanged, and changes no other
\* part; a sibling part whose move is pending after the error response can
\* still complete it, and when it does its object is in the storage directory.
C9_ErrorSentAtOnce ==
  /\ [][\A p \in DOMAIN parts :
          Fails(p) =>
             LET r == parts[p].req
             IN /\ reqs'[r].sends = Append(reqs[r].sends, InternalServerError)
                /\ reqs'[r].taskCounter = reqs[r].taskCounter
                /\ reqs[r].taskCounter > 0
                /\ \A q \in DOMAIN parts : q # p => parts'[q] = parts[q]
                /\ fs' = fs]_vars
  /\ [][\A q \in DOMAIN parts :
          (Commits(q) /\ reqs[parts[q].req].sends # << >>
                      /\ reqs[parts[q].req].sends[1] = InternalServerError) =>
             /\ << storageDir, parts[q].digest >> \in DOMAIN fs'
             /\ fs'[<< storageDir, parts[q].digest >>] = parts[q].data
             /\ reqs'[parts[q].req].sends = reqs[parts[q].req].sends]_vars
  /\ [](\A q \in DOMAIN parts :
          (parts[q].pc = "moving" /\ reqs[parts[q].req].sends # << >>) =>
             ENABLED MoveOk(q))

\* the error response has been sent, the counter is not zero, and a sibling of
\* the failed part has its move pending
C9_Witness ==
  \E p, q \in DOMAIN parts :
    /\ parts[p].req = parts[q].req
    /\ parts[p].pc = "failed"
    /\ parts[q].pc = "moving"
    /\ reqs[parts[p].req].sends = << InternalServerError >>
    /\ reqs[parts[p].req].taskCounter > 0
    /\ << storageDir, parts[q].digest >> \notin DOMAIN fs

\* C10: a part that has failed, or has been moved, leaves no temporary file.
C10_NoStagingFileLeft ==
  \A p \in DOMAIN parts :
    parts[p].pc \in {"moved", "failed", "stalled"} => parts[p].tmpFile \notin DOMAIN fs

\* C11: a DELETE whose check found the object and whose removal failed (the
\* object is still there when the handler is done) answers Conflict, never
\* NotFound and never 200; a DELETE that is done straight after its existence
\* check answers NotFound or InternalServerError, and InternalServerError when
\* the object was there; a DELETE has no response while it runs and exactly
\* one of 200, NotFound, Conflict, InternalServerError when it is done.
C11_DeleteFailureOutcome ==
  /\ [][/\ (del.pc = "remove" /\ del'.pc = "done") =>
             /\ del.filepath \in DOMAIN fs
             /\ IF del.filepath \in DOMAIN fs'
                THEN del'.res = [status |-> 409, result |-> "Conflict"] /\ fs' = fs
                ELSE del'.res = [status |-> 200, result |-> ""]
        /\ (del.pc = "pathExists" /\ del'.pc = "done") =>
             /\ del'.res.status \in {404, 500}
             /\ del.filepath \in DOMAIN fs => del'.res.status = 500
             /\ fs' = fs
        /\ del'.res # del.res =>
             \/ del.res = NoResponse /\ del.pc # "done" /\ del'.pc = "done"
             \/ del.pc = "done" /\ del'.pc = "pathExists" /\ del'.res = NoResponse]_vars
  /\ [](/\ del.pc \in {"idle", "pathExists", "remove"} => del.res = NoResponse
        /\ del.pc = "done" => del.res.status \in {200, 404, 409, 500})

\* the object was stored by an upload, a DELETE found it, its removal failed:
\* Conflict, and the object is still served
C11_Witness ==
  /\ del.pc = "done"
  /\ del.res = [status |-> 409, result |-> "Conflict"]
  /\ del.filepath \in DOMAIN fs
  /\ \E p \in DOMAIN parts :
       parts[p].pc = "moved" /\ del.filepath = << storageDir, parts[p].digest >>

\* C12: a construction whose createHash is missing or is no function throws
\* a TypeError in its first step, before any side effect: the storage
\* directory is not created, no file is touched, no server and so no route
\* exists, then or later, and no request is ever handled.
C12_BadFactoryNoSideEffect ==
  /\ [][(store.pc = "called" /\ store.createHash # "function") =>
          /\ store'.pc = "thrown"
          /\ store'.error = "TypeError"
          /\ store'.dirExists = store.dirExists
          /\ store'.routes = {}
          /\ fs' = fs]_vars
  /\ []((store.createHash # "function" /\ store.pc # "called") =>
          /\ store.pc = "thrown"
          /\ store.error = "TypeError"
          /\ store.routes = {}
          /\ reqs = << >>
          /\ fs = [q \in {} |-> << >>]
          /\ ~ENABLED (Routed("POST /upload") /\ Upload))

\* a construction without a storage directory and with a createHash that is
\* no function has thrown: there is still no directory
C12_Witness ==
  /\ store.pc = "thrown"
  /\ store.createHash \in {"undefined", "string"}
  /\ ~store.dirExists

\* C13: in every reachable state the counter of a request equals 1 while
\* parsing has not completed (0 after 'close') plus the number of its file
\* parts that have started and have neither been moved nor failed; it is
\* never negative.
C13_CounterStateMachine ==
  \A r \in DOMAIN reqs :
    LET parsing == IF reqs[r].form = "closed" THEN 0 ELSE 1
        inFlight == {p \in FileParts(r) : parts[p].pc \in {"writing", "stalled", "moving"}}
    IN /\ reqs[r].taskCounter = parsing + Cardinality(inFlight)
       /\ reqs[r].taskCounter >= 0

\* the number of entries of a list that equal e
Count(seq, e) == Cardinality({i \in DOMAIN seq : seq[i] = e})

\* C14: a file part that has failed (stream error, sink error or a rejected
\* move) has no entry in the files list of its request: the list holds its
\* (name, digest) pair no more often than parts of the request that have not
\* failed account for.
C14_FailedPartNotListed ==
  \A p \in DOMAIN parts :
    (IsFile(p) /\ parts[p].pc \in {"failed", "stalled"}) =>
       LET r == parts[p].req
           entry == << parts[p].filename, parts[p].digest >>
           others == {q \in FileParts(r) :
                        /\ parts[q].pc \notin {"failed", "stalled"}
                        /\ << parts[q].filename, parts[q].digest >> = entry}
       IN Count(reqs[r].files, entry) <= Cardinality(others)

\* the (name, digest) entry a part pushes, and the places of an entry in a list
Entry(p) == << parts[p].filename, parts[p].digest >>
Places(seq, e) == {i \in DOMAIN seq : seq[i] = e}

\* C15: the files list holds the parts of a request in the order in which
\* their moves complete: when the move of a part completes, every part of
\* the request whose move completed before stands earlier in the list
\* (compared for parts whose entries differ and occur once).
C15_ListInCommitOrder ==
  [][\A p \in DOMAIN parts :
       Commits(p) =>
          LET r == parts[p].req
              files == reqs'[r].files
          IN \A q \in FileParts(r) :
               (/\ parts[q].pc = "moved"
                /\ Entry(q) # Entry(p)
                /\ Count(files, Entry(q)) = 1
                /\ Count(files, Entry(p)) = 1)
               => \A i \in Places(files, Entry(q)), j \in Places(files, Entry(p)) : i < j]_vars

\* the place of file part p among the file parts of its request, as received
Rank(p) == Cardinality({q \in FileParts(parts[p].req) : q <= p})

\* C16: when 'close' has fired and every file part of a request has been
\* moved, the i-th entry of the files list of the response is the entry of
\* the i-th file part received.
C16_ListInReceivedOrder ==
  \A r \in DOMAIN reqs :
    (/\ reqs[r].form = "closed"
     /\ \A p \in FileParts(r) : parts[p].pc = "moved"
     /\ reqs[r].sends # << >>)
    => \A p \in FileParts(r) :
         /\ Rank(p) <= Len(reqs[r].sends[1].files)
         /\ reqs[r].sends[1].files[Rank(p)] = << parts[p].filename, Digest(parts[p].data) >>

\* a failure has been seen by request r: a part failed or the form erred
Failure(r) ==
  \/ reqs[r].form \in {"failing", "error"}
  \/ \E p \in DOMAIN parts : parts[p].req = r /\ parts[p].pc \in {"failed", "stalled"}

\* C17: when every pending write and move ends and parsing ends, every
\* upload request eventually has a response, aggregate or error, and a
\* request eventually either reaches counter zero or has seen a failure (so
\* one that parses to 'close' with all its parts moved reaches zero).
C17_EventuallyResponds ==
  \A r \in 1..MaxReq :
    /\ (r \in DOMAIN reqs) ~> (r \in DOMAIN reqs /\ reqs[r].sends # << >>)
    /\ (r \in DOMAIN reqs) ~> (r \in DOMAIN reqs /\ (reqs[r].taskCounter = 0 \/ Failure(r)))

\* a request that parsed to 'close', one part moved and one failed: it has
\* its response although the counter is not zero
C17_Witness ==
  \E r \in DOMAIN reqs :
    /\ reqs[r].form = "closed"
    /\ \E p, q \in FileParts(r) : parts[p].pc = "moved" /\ parts[q].pc = "failed"
    /\ reqs[r].taskCounter > 0
    /\ reqs[r].sends = << InternalServerError >>

\* the step is one of request r: a part of r is received or moves on, or the
\* form of r ends
StepOf(r) ==
  \/ reqs'[r].form # reqs[r].form
  \/ \E p \in DOMAIN parts' :
       parts'[p].req = r /\ (p \notin DOMAIN parts \/ parts'[p] # parts[p])

\* the file parts of r that have pushed the entry e
Pushed(r, e) == {p \in FileParts(r) : parts[p].digest # << >> /\ Entry(p) = e}

\* C18: the counter, the files list and the responses of an upload request
\* change only in steps of that request, and no step changes two requests;
\* the files list of a request, and so of its response, holds exactly the
\* entries its own parts have pushed.
C18_ClosurePrivate ==
  /\ [][\A r \in DOMAIN reqs :
          reqs'[r] # reqs[r] =>
             /\ StepOf(r)
             /\ \A o \in DOMAIN reqs : o # r => (reqs'[o] = reqs[o] /\ ~StepOf(o))]_vars
  /\ [](\A r \in DOMAIN reqs :
          /\ \A i \in DOMAIN reqs[r].files :
               Count(reqs[r].files, reqs[r].files[i]) =
                 Cardinality(Pushed(r, reqs[r].files[i]))
          /\ \A p \in FileParts(r) :
               parts[p].digest # << >> => Count(reqs[r].files, Entry(p)) >= 1
          /\ \A i \in DOMAIN reqs[r].sends : \A j \in DOMAIN reqs[r].sends[i].files :
               Pushed(r, reqs[r].sends[i].files[j]) # {})

\* request 2 ran from its first part to its 201 response while request 1,
\* with a part of its own half written, was in flight
C18_Witness ==
  /\ Len(reqs) = 2
  /\ reqs[1].form = "parsing" /\ reqs[1].taskCounter = 2 /\ reqs[1].sends = << >>
  /\ \E p, q \in DOMAIN parts :
       /\ p < q
       /\ parts[p].req = 1 /\ parts[p].pc = "writing" /\ parts[p].pos = 1
       /\ parts[q].req = 2 /\ parts[q].pc = "moved"
       /\ parts[q].filename # parts[p].filename
       /\ reqs[2].sends = << UploadOkResponse(<< Entry(q) >>) >>

\* C19: in the step that sends a 201 response, every part of the request
\* that has pushed an entry has completed its move (none is pending or
\* failed) and every listed entry belongs to such a part; the object at
\* storageDir/digest, when present, holds exactly the part's bytes, and it
\* is present when no DELETE has run; a stored object disappears only by a
\* successful DELETE of its digest.
C19_ListedPartsAreStored ==
  /\ [][\A r \in DOMAIN reqs :
          (Sent(r) /\ Last(reqs'[r].sends).status = 201) =>
             LET listed == Last(reqs'[r].sends).files
                 pushed == {p \in DOMAIN parts' :
                              parts'[p].req = r /\ parts'[p].digest # << >>}
             IN /\ listed = reqs'[r].files
                /\ \A p \in pushed :
                     LET path == << storageDir, parts'[p].digest >>
                     IN /\ parts'[p].pc = "moved"
                        /\ \E i \in DOMAIN listed :
                             listed[i] = << parts'[p].filename, parts'[p].digest >>
                        /\ path \in DOMAIN fs' => fs'[path] = parts'[p].data
                        /\ del'.pc = "idle" => path \in DOMAIN fs'
                /\ \A i \in DOMAIN listed : \E p \in pushed :
                     listed[i] = << parts'[p].filename, parts'[p].digest >>]_vars
  /\ [][\A path \in Stored(fs) \ Stored(fs') :
          del.pc = "remove" /\ del.filepath = path /\ del'.res.status = 200]_vars

\* a 201 response that lists two parts, pushed in one order and moved in the
\* other, both objects stored with the parts' bytes
C19_Witness ==
  \E r \in DOMAIN reqs : \E p, q \in FileParts(r) :
    /\ p # q
    /\ reqs[r].sends = << UploadOkResponse(<< Entry(p), Entry(q) >>) >>
    /\ parts[p].data # parts[q].data
    /\ fs[<< storageDir, parts[p].digest >>] = parts[p].data
    /\ fs[<< storageDir, parts[q].digest >>] = parts[q].data
    /\ parts[p].tmpFile \notin DOMAIN fs /\ parts[q].tmpFile \notin DOMAIN fs
    /\ del.pc = "idle"

====
